---- MODULE Spec2Model ----
(***************************************************************************)
(* Model of the Lucid query client (src/unnamed/part_000, class            *)
(* QueryClient) and of the PostgreSQL dialect (src/src/dialects/pg.ts,     *)
(* class PgDialect).                                                       *)
(*                                                                         *)
(* Three specifications share the module:                                  *)
(*   SpecClient   the QueryClient over one connection                      *)
(*   SpecDialect  the PgDialect introspection / drop-all operations        *)
(*   SpecLocks    PgDialect advisory locks, several sessions, one server   *)
(***************************************************************************)
EXTENDS Integers, Sequences, FiniteSets, TLC

VARIABLES
    \* ---- QueryClient ----
    mode,        \* QueryClient.mode, fixed by the constructor
    conn,        \* QueryClient._connection: its write and read knex handles
    profiler,    \* QueryClient.profiler (public, assignable)
    pending,     \* transaction() calls suspended at `await ...transaction()`
    issued,      \* statements sent to the database, with the handle used
    ret,         \* outcome of the last completed QueryClient call
    \* ---- PgDialect, introspection and drop-all ----
    catalog,     \* objects of the database the catalog queries read
    config,      \* PgDialect.config (SharedConfigNode)
    sql,         \* statements handed to client.rawQuery by the drop-all calls
    last,        \* the last completed drop-all call and what it read
    \* ---- PgDialect, advisory locks ----
    holder,      \* server: session holding each key, or NoSession
    depth,       \* server: how many times the holder has locked the key
    pc,          \* per session: position in get/releaseAdvisoryLock
    call,        \* per session: the call in progress and its response
    acquired,    \* per session and key: locks the session was told it owns
    lockRet      \* per session: outcome of the last completed lock call

clientVars  == <<mode, conn, profiler, pending, issued, ret>>
dialectVars == <<catalog, config, sql, last>>
lockVars    == <<holder, depth, pc, call, acquired, lockRet>>
vars        == <<clientVars, dialectVars, lockVars>>

(***************************************************************************)
(*                              QueryClient                                *)
(***************************************************************************)

\* Most statements the model keeps in `issued` (the log is otherwise unbounded).
MaxIssued == 2
\* Most transaction() calls suspended at their await at one time.
MaxPending == 1

Modes == {"read", "write", "dual"}

\* A missing handle: `readClient` of a connection is optional (undefined).
NoHandle == "undefined"
\* The connection's write handle, and a read handle distinct from it.
WriteHandle == "W"
ReadHandle == "R"

\* The connection a client is built over: it always has a write handle; its
\* read handle is a distinct one, the write handle itself, or missing.
Connections ==
    [client : {WriteHandle}, readClient : {ReadHandle, WriteHandle, NoHandle}]

NoProfiler == "undefined"
Profilers == {NoProfiler, "p1", "p2"}

TableArgs == {"users", "posts"}
NoTable == "-"

\* What a call hands back: a value, or an exception.
Returned(kind, handle, table, prof, atCall, changed) ==
    [outcome |-> "returned", kind |-> kind, handle |-> handle, table |-> table,
     profiler |-> prof, profilerAtCall |-> atCall, reassigned |-> changed,
     code |-> "", status |-> 0]

Threw(code, status) ==
    [outcome |-> "threw", kind |-> "Exception", handle |-> NoHandle,
     table |-> NoTable, profiler |-> NoProfiler, profilerAtCall |-> NoProfiler,
     reassigned |-> FALSE, code |-> code, status |-> status]

Handle(h) == Returned("knex", h, NoTable, NoProfiler, NoProfiler, FALSE)

\* getReadClient (): the read handle in read and dual mode, else the write one.
getReadClient(m, c) ==
    IF m = "read" \/ m = "dual" THEN Handle(c.readClient) ELSE Handle(c.client)

getWriteClientAlwaysReturns(m, c) == Handle(c.client)

\* getWriteClient (): the write handle in write and dual mode, else it throws.
getWriteClient(m, c) ==
    IF m = "write" \/ m = "dual"
    THEN Handle(c.client)
    ELSE Threw("E_RUNTIME_EXCEPTION", 500)

\* knexQuery (): a knex builder made by the connection's `client` handle.
knexQuery(m, c) == Returned("knex.QueryBuilder", c.client, NoTable,
                            NoProfiler, NoProfiler, FALSE)

\* query (): new DatabaseQueryBuilder(this.knexQuery(), this)
query(m, c) ==
    [knexQuery(m, c) EXCEPT !.kind = "DatabaseQueryBuilder"]

\* modelQuery (model): new ModelQueryBuilder(this.knexQuery(), model, this,
\* { connection, profiler })
modelQuery(m, c, p) ==
    [knexQuery(m, c) EXCEPT !.kind = "ModelQueryBuilder", !.profiler = p]

\* insertQuery (): new InsertQueryBuilder(this.getWriteClient().queryBuilder(), this)
insertQuery(m, c) ==
    LET w == getWriteClient(m, c) IN
    IF w.outcome = "threw" THEN w
    ELSE [w EXCEPT !.kind = "InsertQueryBuilder"]

\* raw (sql, bindings): new RawQueryBuilder(this._connection.client.raw(...), this)
raw(m, c) == Returned("RawQueryBuilder", c.client, NoTable,
                      NoProfiler, NoProfiler, FALSE)

\* from (table): this.query().from(table)
from(m, c, t) == [query(m, c) EXCEPT !.table = t]

\* table (table): this.insertQuery().table(table)
table(m, c, t) ==
    LET b == insertQuery(m, c) IN
    IF b.outcome = "threw" THEN b ELSE [b EXCEPT !.table = t]

NewTransactionClientWithoutProfiler(trx, p, atCall, changed) ==
    Returned("TransactionClient", trx, NoTable, NoProfiler, atCall, changed)

\* new TransactionClient(trx, dialect, connectionName) followed by
\* transaction.profiler = this.profiler. atCall and changed are history only.
NewTransactionClient(trx, p, atCall, changed) ==
    Returned("TransactionClient", trx, NoTable, p, atCall, changed)

Stmt(h, text) == [handle |-> h, stmt |-> text]

Done(op, res) == ret' = [op |-> op, res |-> res]

\* client.profiler = p, by the owner of the client; it may happen while a
\* transaction() call is suspended.
SetProfiler ==
    /\ UNCHANGED <<dialectVars, lockVars>>
    /\ \E p \in Profilers :
        /\ profiler' = p
        /\ pending' = [i \in 1..Len(pending) |->
                          [pending[i] EXCEPT !.reassigned = TRUE]]
        /\ UNCHANGED <<mode, conn, issued, ret>>

GetReadClient ==
    /\ UNCHANGED <<dialectVars, lockVars>>
    /\ Done("getReadClient", getReadClient(mode, conn))
    /\ UNCHANGED <<mode, conn, profiler, pending, issued>>

GetWriteClient ==
    /\ UNCHANGED <<dialectVars, lockVars>>
    /\ Done("getWriteClient", getWriteClient(mode, conn))
    /\ UNCHANGED <<mode, conn, profiler, pending, issued>>

\* truncate (table): await this.getWriteClient().select(table).truncate()
Truncate ==
    /\ UNCHANGED <<dialectVars, lockVars>>
    /\ \E t \in TableArgs :
        LET w == getWriteClient(mode, conn) IN
        IF w.outcome = "threw"
        THEN /\ Done("truncate", w)
             /\ UNCHANGED <<mode, conn, profiler, pending, issued>>
        ELSE /\ Len(issued) < MaxIssued
             /\ issued' = Append(issued, Stmt(w.handle, "truncate"))
             /\ Done("truncate", [w EXCEPT !.kind = "void", !.table = t])
             /\ UNCHANGED <<mode, conn, profiler, pending>>

\* columnsInfo (table, column?): query.columnInfo(column) or query.columnInfo()
ColumnsInfo ==
    /\ UNCHANGED <<dialectVars, lockVars>>
    /\ \E t \in TableArgs, withColumn \in BOOLEAN :
        LET w == getWriteClient(mode, conn) IN
        IF w.outcome = "threw"
        THEN /\ Done("columnsInfo", w)
             /\ UNCHANGED <<mode, conn, profiler, pending, issued>>
        ELSE /\ Len(issued) < MaxIssued
             /\ issued' = Append(issued, Stmt(w.handle,
                    IF withColumn THEN "columnInfo(column)" ELSE "columnInfo()"))
             /\ Done("columnsInfo", [w EXCEPT !.kind = "columns", !.table = t])
             /\ UNCHANGED <<mode, conn, profiler, pending>>

\* transaction (), up to its await: getWriteClient() and the begin it sends.
TransactionBegin ==
    /\ UNCHANGED <<dialectVars, lockVars>>
    /\ LET w == getWriteClient(mode, conn) IN
       IF w.outcome = "threw"
       THEN /\ Done("transaction", w)
            /\ UNCHANGED <<mode, conn, profiler, pending, issued>>
       ELSE /\ Len(issued) < MaxIssued
            /\ Len(pending) < MaxPending
            /\ issued' = Append(issued, Stmt(w.handle, "transaction"))
            /\ pending' = Append(pending, [trx |-> w.handle,
                                           profilerAtCall |-> profiler,
                                           reassigned |-> FALSE])
            /\ UNCHANGED <<mode, conn, profiler, ret>>

\* transaction (), after its await: wrap trx, pass the profiler down, return.
TransactionResume ==
    /\ UNCHANGED <<dialectVars, lockVars>>
    /\ \E i \in 1..Len(pending) :
        /\ Done("transaction",
                NewTransactionClient(pending[i].trx, profiler,
                                     pending[i].profilerAtCall,
                                     pending[i].reassigned))
        /\ pending' = [j \in 1..(Len(pending) - 1) |->
                          IF j < i THEN pending[j] ELSE pending[j + 1]]
        /\ UNCHANGED <<mode, conn, profiler, issued>>

KnexQuery ==
    /\ UNCHANGED <<dialectVars, lockVars>>
    /\ Done("knexQuery", knexQuery(mode, conn))
    /\ UNCHANGED <<mode, conn, profiler, pending, issued>>

ModelQuery ==
    /\ UNCHANGED <<dialectVars, lockVars>>
    /\ Done("modelQuery", modelQuery(mode, conn, profiler))
    /\ UNCHANGED <<mode, conn, profiler, pending, issued>>

Query ==
    /\ UNCHANGED <<dialectVars, lockVars>>
    /\ Done("query", query(mode, conn))
    /\ UNCHANGED <<mode, conn, profiler, pending, issued>>

InsertQuery ==
    /\ UNCHANGED <<dialectVars, lockVars>>
    /\ Done("insertQuery", insertQuery(mode, conn))
    /\ UNCHANGED <<mode, conn, profiler, pending, issued>>

Raw ==
    /\ UNCHANGED <<dialectVars, lockVars>>
    /\ Done("raw", raw(mode, conn))
    /\ UNCHANGED <<mode, conn, profiler, pending, issued>>

From ==
    /\ UNCHANGED <<dialectVars, lockVars>>
    /\ \E t \in TableArgs :
        /\ Done("from", from(mode, conn, t))
        /\ UNCHANGED <<mode, conn, profiler, pending, issued>>

Table ==
    /\ UNCHANGED <<dialectVars, lockVars>>
    /\ \E t \in TableArgs :
        /\ Done("table", table(mode, conn, t))
        /\ UNCHANGED <<mode, conn, profiler, pending, issued>>

NextClient ==
    \/ SetProfiler
    \/ GetReadClient
    \/ GetWriteClient
    \/ Truncate
    \/ ColumnsInfo
    \/ TransactionBegin
    \/ TransactionResume
    \/ KnexQuery
    \/ ModelQuery
    \/ Query
    \/ InsertQuery
    \/ Raw
    \/ From
    \/ Table

(***************************************************************************)
(*                 PgDialect: introspection and drop-all                   *)
(***************************************************************************)

\* Most objects (tables, views, types, domains together) in the database.
MaxObjects == 2

\* Identifiers the code takes apart are sequences of characters.
Quote == "\""
Dot == "."

public == <<"p", "u", "b", "l", "i", "c">>
my_app == <<"m", "y", ".", "a", "p", "p">>
foo == <<"f", "o", "o">>
foo_bar == <<"f", "o", "o", ".", "b", "a", "r">>
spatial_ref_sys ==
    <<"s", "p", "a", "t", "i", "a", "l", "_", "r", "e", "f", "_", "s", "y", "s">>
report == <<"r", "e", "p", "o", "r", "t">>
NoName == <<>>

\* Byte order of the characters used (the `name` columns sort in C collation).
Alphabet ==
    <<".", "_", "a", "b", "c", "d", "e", "f", "g", "h", "i", "j", "k", "l", "m",
      "n", "o", "p", "q", "r", "s", "t", "u", "v", "w", "x", "y", "z">>

Rank(c) == CHOOSE i \in 1..Len(Alphabet) : Alphabet[i] = c

\* a sorts strictly before b
Less(a, b) ==
    \E k \in 1..(Len(a) + 1) :
        /\ k <= Len(b)
        /\ \A i \in 1..(k - 1) : a[i] = b[i]
        /\ (k = Len(a) + 1 \/ Rank(a[k]) < Rank(b[k]))

SchemaNames == {public, my_app}

\* The objects a database may hold. Tables and views carry `name`, types and
\* domains carry `typname` (the code only compares and joins those).
Obj(kind, schema, name, typname) ==
    [kind |-> kind, schema |-> schema, name |-> name, typname |-> typname]

Universe ==
    {Obj("table", s, n, "") : s \in SchemaNames,
                              n \in {foo, foo_bar, spatial_ref_sys}}
    \cup {Obj("view", s, report, "") : s \in SchemaNames}
    \cup {Obj("enum", s, NoName, "mood") : s \in SchemaNames}
    \cup {Obj("enum", public, NoName, "status")}
    \cup {Obj("composite", public, NoName, "address")}
    \cup {Obj("domain", public, NoName, t) : t \in {"cardinal_number", "custom_status"}}
    \cup {Obj("domain", my_app, NoName, t) : t \in {"yes_or_no", "custom_status"}}

Catalogs == {c \in SUBSET Universe : Cardinality(c) <= MaxObjects}

\* The `schemas` argument of the calls.
SchemaLists == {<<>>, <<public>>, <<my_app>>, <<public, my_app>>}

\* this.config: wipe may be missing, and so may wipe.ignoreTables.
Config(hasWipe, hasIgnore, list) ==
    [hasWipe |-> hasWipe, hasIgnoreTables |-> hasIgnore, ignoreTables |-> list]

Configs ==
    {Config(FALSE, FALSE, <<>>), Config(TRUE, FALSE, <<>>)}
    \cup {Config(TRUE, TRUE, l) :
            l \in {<<>>, <<foo>>, <<foo_bar>>, <<spatial_ref_sys, foo>>}}

Range(seq) == {seq[i] : i \in 1..Len(seq)}

\* Every order in which a query without ORDER BY may return the set S.
Orders(S) ==
    {f \in [1..Cardinality(S) -> S] : \A i, j \in 1..Cardinality(S) :
                                          i # j => f[i] # f[j]}

\* `"${schema}"."${name}"`
Quoted(schema, name) ==
    <<Quote>> \o schema \o <<Quote, Dot, Quote>> \o name \o <<Quote>>

\* .whereIn('schemaname', schemas).orderBy(<name>, 'asc') on pg_tables or
\* pg_views: the rows of the given schemas, in every order sorted by name.
RowsOf(cat, kind, schemas) ==
    LET S == {o \in cat : o.kind = kind /\ o.schema \in Range(schemas)} IN
    {f \in Orders(S) : \A i, j \in 1..Cardinality(S) :
                           i < j => ~Less(f[j].name, f[i].name)}

\* getAllTables / getAllViews: map the rows to quoted, qualified names.
getAllTables(rows) == [i \in 1..Len(rows) |-> Quoted(rows[i].schema, rows[i].name)]

getAllViews(rows) == [i \in 1..Len(rows) |-> Quoted(rows[i].schema, rows[i].name)]

getAllTypesOfSchemas(cat, schemas) ==
    Orders({o.typname : o \in {x \in cat : x.kind = "enum"
                                            /\ x.schema \in Range(schemas)}})

\* getAllTypes (_schemas): distinct pg_type.typname joined to pg_enum; the
\* argument is not used. Every order the query may return.
getAllTypes(cat, schemas) ==
    Orders({o.typname : o \in {x \in cat : x.kind = "enum"}})

\* getAllDomains (_schemas): distinct pg_type.typname where typtype = 'd';
\* the argument is not used.
getAllDomains(cat, schemas) ==
    Orders({o.typname : o \in {x \in cat : x.kind = "domain"}})

\* String.prototype.split for a one-character separator.
RECURSIVE split(_, _)
split(s, sep) ==
    IF \A i \in 1..Len(s) : s[i] # sep
    THEN <<s>>
    ELSE LET k == CHOOSE i \in 1..Len(s) :
                      s[i] = sep /\ \A j \in 1..(i - 1) : s[j] # sep
         IN <<SubSeq(s, 1, k - 1)>> \o split(SubSeq(s, k + 1, Len(s)), sep)

\* .replace(/"/g, '')
stripQuotes(s) == LET NotQuote(c) == c # Quote IN SelectSeq(s, NotQuote)

\* extractTableName: table.split('.')[1].replace(/"/g, '')
extractTableName(t) == stripQuotes(split(t, Dot)[2])

\* this.config.wipe?.ignoreTables || ['spatial_ref_sys']
ignoreTables(cfg) ==
    IF cfg.hasWipe /\ cfg.hasIgnoreTables
    THEN cfg.ignoreTables
    ELSE <<spatial_ref_sys>>

\* tables.filter((table) => !ignore.includes(extractTableName(table)))
filterTables(tables, cfg) ==
    LET Keep(t) == extractTableName(t) \notin Range(ignoreTables(cfg))
    IN SelectSeq(tables, Keep)

builtInDomains ==
    <<"cardinal_number", "character_data", "sql_identifier", "time_stamp",
      "yes_or_no">>

domainsToDropAll(domains) == domains

\* domains.filter((domain) => !builtInDomains.includes(domain))
domainsToDrop(domains) ==
    LET Keep(d) == d \notin Range(builtInDomains) IN SelectSeq(domains, Keep)

\* A statement handed to client.rawQuery.
\*   DROP TABLE / DROP VIEW:  `DROP <X> ${names.join(', ')} CASCADE;`
\*   DROP TYPE / DROP DOMAIN: `DROP <X> "${typnames.join('", "')}" CASCADE;`
Drop(verb, names, typnames) ==
    [verb |-> verb, names |-> names, typnames |-> typnames]

Called(op, schemas, rows, names, typnames) ==
    [op |-> op, schemas |-> schemas, rows |-> rows, names |-> names,
     typnames |-> typnames]

\* `sql` holds the statements of the last call only.
DropAllTables ==
    /\ UNCHANGED <<clientVars, lockVars>>
    /\ \E schemas \in SchemaLists :
        \E rows \in RowsOf(catalog, "table", schemas) :
        LET tables == filterTables(getAllTables(rows), config) IN
        /\ sql' = IF Len(tables) = 0 THEN <<>>
                  ELSE <<Drop("DROP TABLE", tables, <<>>)>>
        /\ last' = Called("dropAllTables", schemas, rows, getAllTables(rows), <<>>)
        /\ UNCHANGED <<catalog, config>>

DropAllViews ==
    /\ UNCHANGED <<clientVars, lockVars>>
    /\ \E schemas \in SchemaLists :
        \E rows \in RowsOf(catalog, "view", schemas) :
        LET views == getAllViews(rows) IN
        /\ sql' = IF Len(views) = 0 THEN <<>>
                  ELSE <<Drop("DROP VIEW", views, <<>>)>>
        /\ last' = Called("dropAllViews", schemas, rows, views, <<>>)
        /\ UNCHANGED <<catalog, config>>

DropAllTypes ==
    /\ UNCHANGED <<clientVars, lockVars>>
    /\ \E schemas \in SchemaLists :
        \E types \in getAllTypes(catalog, schemas) :
        /\ sql' = IF Len(types) = 0 THEN <<>>
                  ELSE <<Drop("DROP TYPE", <<>>, types)>>
        /\ last' = Called("dropAllTypes", schemas, <<>>, <<>>, types)
        /\ UNCHANGED <<catalog, config>>

\* The emptiness test is on `domains`, before the built-in ones are removed.
DropAllDomains ==
    /\ UNCHANGED <<clientVars, lockVars>>
    /\ \E schemas \in SchemaLists :
        \E domains \in getAllDomains(catalog, schemas) :
        /\ sql' = IF Len(domains) = 0 THEN <<>>
                  ELSE <<Drop("DROP DOMAIN", <<>>, domainsToDrop(domains))>>
        /\ last' = Called("dropAllDomains", schemas, <<>>, <<>>, domains)
        /\ UNCHANGED <<catalog, config>>

NextDialect ==
    \/ DropAllTables
    \/ DropAllViews
    \/ DropAllTypes
    \/ DropAllDomains

(***************************************************************************)
(*                       PgDialect: advisory locks                         *)
(***************************************************************************)

\* Most times the server lets one session stack the same lock.
MaxDepth == 2

Sessions == {"s1", "s2"}
NoSession == "none"
Keys == {"migrations", "seeds"}

NoCall ==
    [op |-> "none", key |-> "", rows |-> <<>>, heldByOther |-> FALSE,
     heldBySelf |-> FALSE]

\* response.rows[0] && response.rows[0].lock_status === true
lockStatusIgnored(rows) ==
    IF Len(rows) = 0 THEN "undefined" ELSE "true"

lockStatus(rows) ==
    IF Len(rows) = 0 THEN "undefined"
    ELSE IF rows[1].lock_status = TRUE THEN "true" ELSE "false"

\* getAdvisoryLock (key), up to its await: the query is sent.
\*   SELECT PG_TRY_ADVISORY_LOCK('${key}') as lock_status;
GetAdvisoryLockCall(s, k) ==
    /\ UNCHANGED <<clientVars, dialectVars>>
    /\ pc[s] = "idle"
    /\ ~(holder[k] = s /\ depth[k] >= MaxDepth)
    /\ pc' = [pc EXCEPT ![s] = "sent"]
    /\ call' = [call EXCEPT ![s] = [NoCall EXCEPT !.op = "getAdvisoryLock",
                                                  !.key = k]]
    /\ UNCHANGED <<holder, depth, acquired, lockRet>>

\* releaseAdvisoryLock (key), up to its await: the query is sent. The caller
\* gives up one acquisition of the key when it asks for the release.
\*   SELECT PG_ADVISORY_UNLOCK('${key}') as lock_status;
ReleaseAdvisoryLockCall(s, k) ==
    /\ UNCHANGED <<clientVars, dialectVars>>
    /\ pc[s] = "idle"
    /\ pc' = [pc EXCEPT ![s] = "sent"]
    /\ call' = [call EXCEPT ![s] = [NoCall EXCEPT !.op = "releaseAdvisoryLock",
                                                  !.key = k]]
    /\ acquired' = [acquired EXCEPT ![s][k] = IF @ > 0 THEN @ - 1 ELSE 0]
    /\ UNCHANGED <<holder, depth, lockRet>>

\* The server runs pg_try_advisory_lock for session s: it never waits. The
\* lock is granted when free or already held by s (session locks stack).
ServerTryLock(s) ==
    /\ UNCHANGED <<clientVars, dialectVars>>
    /\ pc[s] = "sent"
    /\ call[s].op = "getAdvisoryLock"
    /\ LET k == call[s].key
           free == holder[k] = NoSession \/ holder[k] = s
       IN /\ holder' = IF free THEN [holder EXCEPT ![k] = s] ELSE holder
          /\ depth' = IF free THEN [depth EXCEPT ![k] = @ + 1] ELSE depth
          /\ call' = [call EXCEPT ![s].rows = <<[lock_status |-> free]>>,
                                  ![s].heldByOther = ~free,
                                  ![s].heldBySelf = (holder[k] = s)]
    /\ pc' = [pc EXCEPT ![s] = "received"]
    /\ UNCHANGED <<acquired, lockRet>>

\* The server runs pg_advisory_unlock for session s: true when s held the key.
ServerUnlock(s) ==
    /\ UNCHANGED <<clientVars, dialectVars>>
    /\ pc[s] = "sent"
    /\ call[s].op = "releaseAdvisoryLock"
    /\ LET k == call[s].key
           mine == holder[k] = s
       IN /\ depth' = IF mine THEN [depth EXCEPT ![k] = @ - 1] ELSE depth
          /\ holder' = IF mine /\ depth[k] = 1
                       THEN [holder EXCEPT ![k] = NoSession] ELSE holder
          /\ call' = [call EXCEPT ![s].rows = <<[lock_status |-> mine]>>,
                                  ![s].heldByOther =
                                      (holder[k] # NoSession /\ ~mine),
                                  ![s].heldBySelf = mine]
    /\ pc' = [pc EXCEPT ![s] = "received"]
    /\ UNCHANGED <<acquired, lockRet>>

\* After the await: the call returns what it reads in the response.
LockReturn(s) ==
    /\ UNCHANGED <<clientVars, dialectVars>>
    /\ pc[s] = "received"
    /\ LET v == lockStatus(call[s].rows) IN
       /\ lockRet' = [session |-> s, op |-> call[s].op, key |-> call[s].key,
                      value |-> v, heldByOther |-> call[s].heldByOther,
                      heldBySelf |-> call[s].heldBySelf]
       /\ acquired' = IF call[s].op = "getAdvisoryLock" /\ v = "true"
                      THEN [acquired EXCEPT ![s][call[s].key] = @ + 1]
                      ELSE acquired
    /\ pc' = [pc EXCEPT ![s] = "idle"]
    /\ call' = [call EXCEPT ![s] = NoCall]
    /\ UNCHANGED <<holder, depth>>

NextLocks ==
    \/ \E s \in Sessions, k \in Keys : GetAdvisoryLockCall(s, k)
    \/ \E s \in Sessions, k \in Keys : ReleaseAdvisoryLockCall(s, k)
    \/ \E s \in Sessions : ServerTryLock(s)
    \/ \E s \in Sessions : ServerUnlock(s)
    \/ \E s \in Sessions : LockReturn(s)

(***************************************************************************)
(*                           Specifications                                *)
(***************************************************************************)

\* Each specification runs one component; the others stay as constructed.
NewRet == [op |-> "new", res |-> Handle(NoHandle)]
NewLast == Called("new", <<>>, <<>>, <<>>, <<>>)
NewLockRet ==
    [session |-> NoSession, op |-> "none", key |-> "", value |-> "undefined",
     heldByOther |-> FALSE, heldBySelf |-> FALSE]

\* new QueryClient(mode, connection), over an empty database.
InitClient ==
    /\ mode \in Modes
    /\ conn \in Connections
    /\ profiler = NoProfiler
    /\ pending = <<>>
    /\ issued = <<>>
    /\ ret = NewRet
    /\ catalog = {}
    /\ config = Config(FALSE, FALSE, <<>>)
    /\ sql = <<>>
    /\ last = NewLast
    /\ holder = [k \in Keys |-> NoSession]
    /\ depth = [k \in Keys |-> 0]
    /\ pc = [s \in Sessions |-> "idle"]
    /\ call = [s \in Sessions |-> NoCall]
    /\ acquired = [s \in Sessions |-> [k \in Keys |-> 0]]
    /\ lockRet = NewLockRet

\* new PgDialect(client, config), over any database and configuration.
InitDialect ==
    /\ mode = "dual"
    /\ conn = [client |-> WriteHandle, readClient |-> ReadHandle]
    /\ profiler = NoProfiler
    /\ pending = <<>>
    /\ issued = <<>>
    /\ ret = NewRet
    /\ catalog \in Catalogs
    /\ config \in Configs
    /\ sql = <<>>
    /\ last = NewLast
    /\ holder = [k \in Keys |-> NoSession]
    /\ depth = [k \in Keys |-> 0]
    /\ pc = [s \in Sessions |-> "idle"]
    /\ call = [s \in Sessions |-> NoCall]
    /\ acquired = [s \in Sessions |-> [k \in Keys |-> 0]]
    /\ lockRet = NewLockRet

\* One PgDialect per session, no lock taken on the server.
InitLocks ==
    /\ mode = "dual"
    /\ conn = [client |-> WriteHandle, readClient |-> ReadHandle]
    /\ profiler = NoProfiler
    /\ pending = <<>>
    /\ issued = <<>>
    /\ ret = NewRet
    /\ catalog = {}
    /\ config = Config(FALSE, FALSE, <<>>)
    /\ sql = <<>>
    /\ last = NewLast
    /\ holder = [k \in Keys |-> NoSession]
    /\ depth = [k \in Keys |-> 0]
    /\ pc = [s \in Sessions |-> "idle"]
    /\ call = [s \in Sessions |-> NoCall]
    /\ acquired = [s \in Sessions |-> [k \in Keys |-> 0]]
    /\ lockRet = NewLockRet

SpecClient == InitClient /\ [][NextClient]_vars

SpecDialect == InitDialect /\ [][NextDialect]_vars

SpecLocks == InitLocks /\ [][NextLocks]_vars

(***************************************************************************)
(*                      Properties of the QueryClient                      *)
(***************************************************************************)

NeedsWriteHandle ==
    {"getWriteClient", "truncate", "columnsInfo", "transaction", "insertQuery",
     "table"}

\* C1: on a client built in read mode, getWriteClient() and every call that
\* needs the write handle (truncate, columnsInfo, transaction, insertQuery,
\* table) fails with E_RUNTIME_EXCEPTION, hands back no handle, and no
\* statement is ever issued (nor any transaction left pending) on a handle.
C1_ReadModeHasNoWriteClient ==
    mode = "read" =>
        /\ issued = <<>>
        /\ pending = <<>>
        /\ ret.op \in NeedsWriteHandle =>
              /\ ret.res.outcome = "threw"
              /\ ret.res.code = "E_RUNTIME_EXCEPTION"
              /\ ret.res.handle = NoHandle

\* C1 witness: truncate() was called on a read mode client and threw.
C1_Witness ==
    /\ mode = "read"
    /\ ret.op = "truncate"
    /\ ret.res.outcome = "threw"

\* Handles a call exposed: the one it returned or bound its builder to, and
\* the ones statements were issued on.
Exposed ==
    (IF ret.res.outcome = "returned" /\ ret.op # "new"
     THEN {ret.res.handle} ELSE {})
    \cup {issued[i].handle : i \in 1..Len(issued)}

\* C2: mode isolation. Over a connection whose read and write handles are two
\* handles, a read mode client never returns, nor binds a builder or a
\* statement to, the write handle, and a write mode client never does so with
\* the read handle.
C2_ModeIsolation ==
    conn.readClient = ReadHandle =>
        /\ mode = "read" => conn.client \notin Exposed
        /\ mode = "write" => conn.readClient \notin Exposed

\* C3: a dual mode client gets a handle (never undefined) from getReadClient()
\* and from getWriteClient(); over a connection with no read handle of its
\* own, getReadClient() gives the write handle.
C3_DualHasBothHandles ==
    (mode = "dual" /\ ret.op \in {"getReadClient", "getWriteClient"}) =>
        /\ ret.res.outcome = "returned"
        /\ ret.res.handle # NoHandle
        /\ (ret.op = "getReadClient" /\ conn.readClient # ReadHandle)
              => ret.res.handle = conn.client

\* C4: when the call succeeds, query() and from(table) are bound to the handle
\* getReadClient() returns, insertQuery() and table(table) to the handle
\* getWriteClient() returns. Stated over the connections that have a read
\* handle, where getReadClient() does return one.
C4_BuildersUseModeHandle ==
    (conn.readClient # NoHandle /\ ret.res.outcome = "returned") =>
        /\ ret.op \in {"query", "from"} =>
              ret.res.handle = getReadClient(mode, conn).handle
        /\ ret.op \in {"insertQuery", "table"} =>
              ret.res.handle = getWriteClient(mode, conn).handle

\* C9 as stated: the transaction client handed back by transaction() is begun
\* on the write handle and carries the profiler the parent had when
\* transaction() was called.
C9_ProfilerAtCall ==
    (ret.op = "transaction" /\ ret.res.outcome = "returned") =>
        /\ ret.res.handle = conn.client
        /\ ret.res.profiler = ret.res.profilerAtCall

BeginStep == Len(pending') > Len(pending)
ResumeStep == Len(pending') < Len(pending)

\* C9, amended: on a write or dual mode client transaction() begins on the
\* write handle; the transaction client it hands back carries the profiler the
\* parent has when the begun transaction is wrapped (after the await), which
\* is the profiler at the time of the call whenever the profiler was not
\* assigned while the begin was pending; transaction() leaves the parent's
\* mode, connection and profiler unchanged.
C9_ProfilerPropagated ==
    [][/\ BeginStep =>
             /\ mode \in {"write", "dual"}
             /\ issued' = Append(issued, Stmt(conn.client, "transaction"))
             /\ UNCHANGED <<mode, conn, profiler>>
       /\ ResumeStep =>
             /\ ret'.op = "transaction"
             /\ ret'.res.kind = "TransactionClient"
             /\ ret'.res.handle = conn.client
             /\ ret'.res.profiler = profiler
             /\ ~ret'.res.reassigned => ret'.res.profiler = ret'.res.profilerAtCall
             /\ UNCHANGED <<mode, conn, profiler>>]_vars

\* C9 witness: a transaction client was handed back carrying the parent's
\* profiler, which was assigned while the begin was pending.
C9_Witness ==
    /\ ret.op = "transaction"
    /\ ret.res.outcome = "returned"
    /\ ret.res.reassigned
    /\ ret.res.profiler = "p2"
    /\ profiler = "p2"

(***************************************************************************)
(*                 Properties of the drop-all operations                   *)
(***************************************************************************)

EmittedNames == IF sql = <<>> THEN {} ELSE Range(sql[1].names)
EmittedTypnames == IF sql = <<>> THEN {} ELSE Range(sql[1].typnames)

\* The discovered tables whose unqualified name is not ignore-listed.
TablesLeft ==
    {Quoted(r.schema, r.name) :
        r \in {x \in Range(last.rows) : x.name \notin Range(ignoreTables(config))}}

\* C5: the DROP TABLE statement of dropAllTables names exactly the discovered
\* tables whose unqualified name is not in the ignore-list (none when there is
\* no such table), whatever the names, names with a `.` included.
C5_DropTablesExact ==
    last.op = "dropAllTables" => EmittedNames = TablesLeft

BuiltIn ==
    {"cardinal_number", "character_data", "sql_identifier", "time_stamp",
     "yes_or_no"}

\* C6: the statement of dropAllDomains names none of the five built-in
\* domains and every other domain the catalog returned.
C6_NoBuiltInDomainDropped ==
    (last.op = "dropAllDomains" /\ sql # <<>>) =>
        /\ sql[1].verb = "DROP DOMAIN"
        /\ EmittedTypnames \cap BuiltIn = {}
        /\ EmittedTypnames = Range(last.typnames) \ BuiltIn

\* C6 witness: the catalog returned cardinal_number and custom_status and the
\* statement is DROP DOMAIN "custom_status" CASCADE;
C6_Witness ==
    /\ last.op = "dropAllDomains"
    /\ Range(last.typnames) = {"cardinal_number", "custom_status"}
    /\ sql = <<Drop("DROP DOMAIN", <<>>, <<"custom_status">>)>>

\* The objects a drop-all call is left to drop, after its exclusions.
LeftToDrop ==
    CASE last.op = "dropAllTables" -> TablesLeft
      [] last.op = "dropAllViews" -> Range(last.names)
      [] last.op = "dropAllTypes" -> Range(last.typnames)
      [] last.op = "dropAllDomains" -> Range(last.typnames) \ BuiltIn
      [] OTHER -> {}

\* No discovered table has a `.` in its schema or in its name.
PlainNames ==
    \A r \in Range(last.rows) : Dot \notin Range(r.schema) \cup Range(r.name)

\* C7: a drop-all call issues no statement when nothing is left to drop and
\* exactly one DROP statement otherwise; a statement issued names at least
\* one object. Stated for discovered tables whose names hold no `.` (C5 is
\* about the others).
C7_NoStatementWhenNothingLeft ==
    (last.op # "new" /\ PlainNames) =>
        /\ Len(sql) = (IF LeftToDrop = {} THEN 0 ELSE 1)
        /\ sql # <<>> => EmittedNames \cup EmittedTypnames # {}

TypnamesOf(kind) == {o.typname : o \in {x \in catalog : x.kind = kind}}

NamesIn(kind, schemas) ==
    {Quoted(o.schema, o.name) :
        o \in {x \in catalog : x.kind = kind /\ x.schema \in Range(schemas)}}

\* C10: getAllTypes and getAllDomains return the enum types and the domains
\* of every schema of the database, whatever `schemas` is, and dropAllTypes
\* and dropAllDomains drop them all (the built-in domains aside); getAllTables
\* and getAllViews return the objects of the schemas passed only.
C10_TypesAndDomainsOfEverySchema ==
    /\ last.op = "dropAllTypes" =>
          /\ Range(last.typnames) = TypnamesOf("enum")
          /\ EmittedTypnames = TypnamesOf("enum")
    /\ last.op = "dropAllDomains" =>
          /\ Range(last.typnames) = TypnamesOf("domain")
          /\ EmittedTypnames = TypnamesOf("domain") \ BuiltIn
    /\ last.op = "dropAllTables" =>
          Range(last.names) = NamesIn("table", last.schemas)
    /\ last.op = "dropAllViews" =>
          Range(last.names) = NamesIn("view", last.schemas)

\* C10 witness: dropAllTypes(schemas) dropped an enum type all of whose
\* schemas are outside `schemas`.
C10_Witness ==
    /\ last.op = "dropAllTypes"
    /\ sql # <<>>
    /\ \E t \in EmittedTypnames :
          \A o \in catalog :
              (o.kind = "enum" /\ o.typname = t) => o.schema \notin Range(last.schemas)

(***************************************************************************)
(*                    Properties of the advisory locks                     *)
(***************************************************************************)

\* C8: getAdvisoryLock returns true exactly when its call acquired the lock,
\* and false (no error, no wait) when another session holds the key;
\* releaseAdvisoryLock returns true exactly when the caller held the key; a
\* session told it owns a key is the server's holder of it, so no two
\* sessions own the same key at once.
C8_AdvisoryLocks ==
    /\ lockRet.op = "getAdvisoryLock" =>
          /\ lockRet.value \in {"true", "false"}
          /\ lockRet.value = "true" <=> ~lockRet.heldByOther
    /\ lockRet.op = "releaseAdvisoryLock" =>
          /\ lockRet.value \in {"true", "false"}
          /\ lockRet.value = "true" <=> lockRet.heldBySelf
    /\ \A s \in Sessions, k \in Keys :
          acquired[s][k] > 0 => (holder[k] = s /\ depth[k] >= acquired[s][k])
    /\ \A s, t \in Sessions, k \in Keys :
          (acquired[s][k] > 0 /\ acquired[t][k] > 0) => s = t
    /\ \A s \in Sessions :
          pc[s] = "sent" => ENABLED (ServerTryLock(s) \/ ServerUnlock(s))

\* C8 witness: getAdvisoryLock("migrations") returned false while another
\* session owned the key.
C8_Witness ==
    /\ lockRet.op = "getAdvisoryLock"
    /\ lockRet.key = "migrations"
    /\ lockRet.value = "false"
    /\ \E t \in Sessions : t # lockRet.session /\ acquired[t]["migrations"] > 0

====
